---------------------------- MODULE Spec2Model ----------------------------
(***************************************************************************)
(* Verifiable Deletion Protocol: the DeletionProof ledger contract, the    *)
(* key store with its destroyer, the CryptoManager that uses the keys and  *)
(* the certificate verification steps.                                     *)
(***************************************************************************)
EXTENDS Integers, Sequences, FiniteSets, TLC

(***************************************************************************)
(* Bounds of the model.                                                    *)
(***************************************************************************)
\* block.timestamp runs from 0 to MaxTime
MaxTime == 1
\* longest batch whose entries are enumerated
MaxBatch == 2

(***************************************************************************)
(* Input domains.                                                          *)
(***************************************************************************)
ZeroAddress == "0x0"
Deployer == "0xA"
Senders == {"0xA", "0xB"}
Addresses == Senders \cup {ZeroAddress}
Users == {"alice", "bob"}
\* key_id = f"user_{user_id}_dek"
KeyIdOf(user_id) == "user_" \o user_id \o "_dek"
KeyNames == {KeyIdOf(u) : u \in Users}
LedgerKeyIds == {""} \cup KeyNames
MethodNames == {"", "dod_overwrite", "ctypes_secure"}
ProofHashes == {"h1", "h2"}
ZeroHash == "0x00"

VARIABLES
    deletionRecords,      \* mapping(string => DeletionRecord)
    keyIds,               \* string[]
    owner,                \* address
    authorizedOperators,  \* mapping(address => bool)
    totalDeletions,       \* uint256
    blockTimestamp,       \* block.timestamp of the next transaction
    eventLog,             \* the KeyDeleted events emitted so far
    kms_keys,             \* kms._keys: key_id -> SecureKey
    key_lock,             \* per key_id: the destroy that holds the exclusive lock
    originalMaterial,     \* per key_id: the material its key was created with
    overwritten,          \* per key_id: a pass has written into the key's buffer
    destroyRuns,          \* per key_id: destruction algorithms started on its key
    destroyOks,           \* per key_id: destroy calls that returned success
    secureDestroyed,      \* key_ids destroyed with ctypes_secure
    cert_files,           \* certificates/{certificate_id}.json
    cert_issued,          \* per certificate_id: the file as the generator wrote it
    ledgerReachable,      \* the verifier's RPC node answers
    retry                 \* record_with_retry: its attempt, last error and outcome

ledgerVars == <<deletionRecords, keyIds, owner, authorizedOperators,
                totalDeletions, blockTimestamp, eventLog>>

kmsVars == <<kms_keys, key_lock, originalMaterial, overwritten, destroyRuns,
             destroyOks, secureDestroyed>>

certVars == <<cert_files, cert_issued, ledgerReachable>>

clientVars == <<retry>>

vars == <<ledgerVars, kmsVars, certVars, clientVars>>

(***************************************************************************)
(* DeletionProof: data                                                     *)
(***************************************************************************)
\* a mapping slot never written reads as the zero struct
DeletionRecord(k, m, ts, op, h) ==
    [keyId |-> k, destructionMethod |-> m, timestamp |-> ts,
     operator |-> op, proofHash |-> h, exists |-> TRUE]

EmptyRecord ==
    [keyId |-> "", destructionMethod |-> "", timestamp |-> 0,
     operator |-> ZeroAddress, proofHash |-> ZeroHash, exists |-> FALSE]

\* an event that names the owner as the operator
KeyDeleted_ByOwner(k, m, ts, op) ==
    [event |-> "KeyDeleted", keyId |-> k, destructionMethod |-> m,
     timestamp |-> ts, operator |-> Deployer]

KeyDeleted(k, m, ts, op) ==
    [event |-> "KeyDeleted", keyId |-> k, destructionMethod |-> m,
     timestamp |-> ts, operator |-> op]

OperatorAuthorized(op, granted) ==
    [event |-> "OperatorAuthorized", operator |-> op, authorized |-> granted]

\* the part of the contract state that recordDeletion writes
LedgerState == [deletionRecords |-> deletionRecords, keyIds |-> keyIds,
                totalDeletions |-> totalDeletions]

(***************************************************************************)
(* DeletionProof: modifiers                                                *)
(***************************************************************************)
\* an onlyOwner that lets authorized operators through
onlyOwner_Authorized(sender) == sender = owner \/ authorizedOperators[sender]

onlyOwner(sender) == sender = owner

\* an onlyAuthorized that lets every caller through
onlyAuthorized_Anyone(sender) == TRUE

onlyAuthorized(sender) == sender = owner \/ authorizedOperators[sender]

\* a keyMustNotExist that lets every key through
keyMustNotExist_Absent(st, _keyId) == TRUE

keyMustNotExist(st, _keyId) == ~st.deletionRecords[_keyId].exists

\* a keyMustExist that lets every key through
keyMustExist_Always(_keyId) == TRUE

keyMustExist(_keyId) == deletionRecords[_keyId].exists

(***************************************************************************)
(* DeletionProof: constructor                                              *)
(***************************************************************************)
LedgerInit ==
    /\ deletionRecords = [k \in LedgerKeyIds |-> EmptyRecord]
    /\ keyIds = <<>>
    /\ owner = Deployer
    /\ authorizedOperators = [a \in Addresses |-> a = Deployer]
    /\ totalDeletions = 0
    /\ blockTimestamp = 0
    /\ eventLog = <<>>


(***************************************************************************)
(* DeletionProof: recordDeletion                                           *)
(***************************************************************************)
BatchLimit == 100

\* a record that names the owner, not the caller, as its operator
newRecord_ByOwner(_keyId, _destructionMethod, _proofHash, ts, sender) ==
    DeletionRecord(_keyId, _destructionMethod, ts, owner, _proofHash)

\* deletionRecords[_keyId] = DeletionRecord({...})
newRecord(_keyId, _destructionMethod, _proofHash, ts, sender) ==
    DeletionRecord(_keyId, _destructionMethod, ts, sender, _proofHash)

\* a push at the head of the list
pushKeyId_Front(list, _keyId) == <<_keyId>> \o list

\* a recordDeletion that forgets the enumeration list
pushKeyId_Skipped(list, _keyId) == list

\* keyIds.push(_keyId)
pushKeyId(list, _keyId) == Append(list, _keyId)

\* An outcome of a state-changing call: the revert reason or "ok", the state
\* it leaves (the state it started from when it reverts) and its events.
Reverted(st, reason) == [result |-> reason, st |-> st, events |-> <<>>]

\* a body without the require on the method
recordDeletionBody_NoMethodCheck(st, sender, _keyId, _destructionMethod, _proofHash, ts) ==
    IF _keyId = "" THEN Reverted(st, "Key ID cannot be empty")
    ELSE [result |-> "ok",
          st |-> [deletionRecords |->
                      [st.deletionRecords EXCEPT ![_keyId] =
                          newRecord(_keyId, _destructionMethod, _proofHash, ts, sender)],
                  keyIds |-> pushKeyId(st.keyIds, _keyId),
                  totalDeletions |-> st.totalDeletions + 1],
          events |-> <<KeyDeleted(_keyId, _destructionMethod, ts, sender)>>]

\* The body of recordDeletion behind its modifiers, on contract state st.
recordDeletionBody(st, sender, _keyId, _destructionMethod, _proofHash, ts) ==
    IF _keyId = "" THEN Reverted(st, "Key ID cannot be empty")
    ELSE IF _destructionMethod = "" THEN Reverted(st, "Method cannot be empty")
    ELSE [result |-> "ok",
          st |-> [deletionRecords |->
                      [st.deletionRecords EXCEPT ![_keyId] =
                          newRecord(_keyId, _destructionMethod, _proofHash, ts, sender)],
                  keyIds |-> pushKeyId(st.keyIds, _keyId),
                  totalDeletions |-> st.totalDeletions + 1],
          events |-> <<KeyDeleted(_keyId, _destructionMethod, ts, sender)>>]

\* a recordDeletion that validates its arguments before it looks at the caller
recordDeletionCall_ValidateFirst(st, sender, _keyId, _destructionMethod, _proofHash, ts) ==
    IF _keyId = "" THEN Reverted(st, "Key ID cannot be empty")
    ELSE IF _destructionMethod = "" THEN Reverted(st, "Method cannot be empty")
    ELSE IF ~keyMustNotExist(st, _keyId)
         THEN Reverted(st, "Key deletion record already exists")
    ELSE IF ~onlyAuthorized(sender) THEN Reverted(st, "Not authorized")
    ELSE recordDeletionBody(st, sender, _keyId, _destructionMethod, _proofHash, ts)

\* recordDeletion with its modifiers, in the order the contract lists them.
recordDeletionCall(st, sender, _keyId, _destructionMethod, _proofHash, ts) ==
    IF ~onlyAuthorized(sender) THEN Reverted(st, "Not authorized")
    ELSE IF ~keyMustNotExist(st, _keyId)
         THEN Reverted(st, "Key deletion record already exists")
    ELSE recordDeletionBody(st, sender, _keyId, _destructionMethod, _proofHash, ts)

\* A transaction's outcome written to the contract state. A reverted
\* transaction leaves the whole state as it was; its reason goes to the caller.
Commit(out) ==
    /\ deletionRecords' = out.st.deletionRecords
    /\ keyIds' = out.st.keyIds
    /\ totalDeletions' = out.st.totalDeletions
    /\ eventLog' = eventLog \o out.events

recordDeletion(sender, _keyId, _destructionMethod, _proofHash) ==
    /\ Commit(recordDeletionCall(LedgerState, sender, _keyId,
                                 _destructionMethod, _proofHash, blockTimestamp))
    /\ UNCHANGED <<owner, authorizedOperators, blockTimestamp>>
    /\ UNCHANGED <<kmsVars, certVars, clientVars>>

(***************************************************************************)
(* DeletionProof: batchRecordDeletion                                      *)
(***************************************************************************)
RECURSIVE batchLoop_Overwrite(_, _, _, _, _, _, _, _)
\* a loop that writes recorded keyIds again
batchLoop_Overwrite(st, events, i, sender, _keyIds, _destructionMethods, _proofHashes, ts) ==
    IF i > Len(_keyIds) THEN [result |-> "ok", st |-> st, events |-> events]
    ELSE LET r == recordDeletionBody(st, sender, _keyIds[i],
                                     _destructionMethods[i], _proofHashes[i], ts)
         IN  IF r.result # "ok" THEN r
             ELSE batchLoop_Overwrite(r.st, events \o r.events, i + 1, sender, _keyIds,
                                      _destructionMethods, _proofHashes, ts)

RECURSIVE batchLoop_NoSkip(_, _, _, _, _, _, _, _)
\* a loop without the test on exists
batchLoop_NoSkip(st, events, i, sender, _keyIds, _destructionMethods, _proofHashes, ts) ==
    IF i > Len(_keyIds) THEN [result |-> "ok", st |-> st, events |-> events]
    ELSE LET r == recordDeletionCall(st, sender, _keyIds[i],
                                     _destructionMethods[i], _proofHashes[i], ts)
         IN  IF r.result # "ok" THEN r
             ELSE batchLoop_NoSkip(r.st, events \o r.events, i + 1, sender, _keyIds,
                                   _destructionMethods, _proofHashes, ts)

RECURSIVE batchLoop(_, _, _, _, _, _, _, _)
\* for (i = 0; i < _keyIds.length; i++) if (!exists) recordDeletion(...)
\* A revert of an inner recordDeletion reverts the whole transaction.
batchLoop(st, events, i, sender, _keyIds, _destructionMethods, _proofHashes, ts) ==
    IF i > Len(_keyIds) THEN [result |-> "ok", st |-> st, events |-> events]
    ELSE IF st.deletionRecords[_keyIds[i]].exists
         THEN batchLoop(st, events, i + 1, sender, _keyIds,
                        _destructionMethods, _proofHashes, ts)
    ELSE LET r == recordDeletionCall(st, sender, _keyIds[i],
                                     _destructionMethods[i], _proofHashes[i], ts)
         IN  IF r.result # "ok" THEN r
             ELSE batchLoop(r.st, events \o r.events, i + 1, sender, _keyIds,
                            _destructionMethods, _proofHashes, ts)

\* a batch that tests for empty arrays before it compares the lengths
batchRecordDeletionCall_EmptyFirst(st, sender, _keyIds, _destructionMethods, _proofHashes, ts) ==
    IF ~onlyAuthorized(sender) THEN Reverted(st, "Not authorized")
    ELSE IF ~(Len(_keyIds) > 0) THEN Reverted(st, "Arrays cannot be empty")
    ELSE IF ~(Len(_keyIds) = Len(_destructionMethods)
              /\ Len(_keyIds) = Len(_proofHashes))
         THEN Reverted(st, "Array lengths must match")
    ELSE IF ~(Len(_keyIds) <= BatchLimit) THEN Reverted(st, "Batch size too large")
    ELSE LET r == batchLoop(st, <<>>, 1, sender, _keyIds,
                            _destructionMethods, _proofHashes, ts)
         IN  IF r.result = "ok" THEN r ELSE Reverted(st, r.result)

\* a batch whose limit is exclusive
batchRecordDeletionCall_Below(st, sender, _keyIds, _destructionMethods, _proofHashes, ts) ==
    IF ~onlyAuthorized(sender) THEN Reverted(st, "Not authorized")
    ELSE IF ~(Len(_keyIds) = Len(_destructionMethods)
              /\ Len(_keyIds) = Len(_proofHashes))
         THEN Reverted(st, "Array lengths must match")
    ELSE IF ~(Len(_keyIds) > 0) THEN Reverted(st, "Arrays cannot be empty")
    ELSE IF ~(Len(_keyIds) < BatchLimit) THEN Reverted(st, "Batch size too large")
    ELSE LET r == batchLoop(st, <<>>, 1, sender, _keyIds,
                            _destructionMethods, _proofHashes, ts)
         IN  IF r.result = "ok" THEN r ELSE Reverted(st, r.result)

\* a batch that keeps the entries written before an entry reverted
batchRecordDeletionCall_KeepPartial(st, sender, _keyIds, _destructionMethods, _proofHashes, ts) ==
    IF ~onlyAuthorized(sender) THEN Reverted(st, "Not authorized")
    ELSE IF ~(Len(_keyIds) = Len(_destructionMethods)
              /\ Len(_keyIds) = Len(_proofHashes))
         THEN Reverted(st, "Array lengths must match")
    ELSE IF ~(Len(_keyIds) > 0) THEN Reverted(st, "Arrays cannot be empty")
    ELSE IF ~(Len(_keyIds) <= BatchLimit) THEN Reverted(st, "Batch size too large")
    ELSE batchLoop(st, <<>>, 1, sender, _keyIds, _destructionMethods, _proofHashes, ts)

batchRecordDeletionCall(st, sender, _keyIds, _destructionMethods, _proofHashes, ts) ==
    IF ~onlyAuthorized(sender) THEN Reverted(st, "Not authorized")
    ELSE IF ~(Len(_keyIds) = Len(_destructionMethods)
              /\ Len(_keyIds) = Len(_proofHashes))
         THEN Reverted(st, "Array lengths must match")
    ELSE IF ~(Len(_keyIds) > 0) THEN Reverted(st, "Arrays cannot be empty")
    ELSE IF ~(Len(_keyIds) <= BatchLimit) THEN Reverted(st, "Batch size too large")
    ELSE LET r == batchLoop(st, <<>>, 1, sender, _keyIds,
                            _destructionMethods, _proofHashes, ts)
         IN  IF r.result = "ok" THEN r ELSE Reverted(st, r.result)

batchRecordDeletion(sender, _keyIds, _destructionMethods, _proofHashes) ==
    /\ Commit(batchRecordDeletionCall(LedgerState, sender, _keyIds,
                                      _destructionMethods, _proofHashes,
                                      blockTimestamp))
    /\ UNCHANGED <<owner, authorizedOperators, blockTimestamp>>
    /\ UNCHANGED <<kmsVars, certVars, clientVars>>

(***************************************************************************)
(* DeletionProof: queries                                                  *)
(***************************************************************************)
getDeletionRecord(_keyId) ==
    IF ~keyMustExist(_keyId)
    THEN [result |-> "Key deletion record does not exist"]
    ELSE LET record == deletionRecords[_keyId]
         IN  [result |-> "ok",
              value |-> <<record.keyId, record.destructionMethod,
                          record.timestamp, record.operator, record.proofHash>>]

isKeyDeleted(_keyId) == deletionRecords[_keyId].exists

getAllKeyIds == keyIds

getTotalDeletions == totalDeletions

\* a verifyDeletionProof that answers for keys without a record
verifyDeletionProof_Unguarded(_keyId, _expectedHash) ==
    [result |-> "ok", value |-> deletionRecords[_keyId].proofHash = _expectedHash]

verifyDeletionProof(_keyId, _expectedHash) ==
    IF ~keyMustExist(_keyId)
    THEN [result |-> "Key deletion record does not exist"]
    ELSE [result |-> "ok",
          value |-> deletionRecords[_keyId].proofHash = _expectedHash]

isAuthorized(_operator) == _operator = owner \/ authorizedOperators[_operator]

\* the answers of the read functions
ReadAnswers ==
    [getDeletionRecord |-> [k \in LedgerKeyIds |-> getDeletionRecord(k)],
     isKeyDeleted |-> [k \in LedgerKeyIds |-> isKeyDeleted(k)],
     getAllKeyIds |-> getAllKeyIds,
     getTotalDeletions |-> getTotalDeletions,
     verifyDeletionProof |->
         [k \in LedgerKeyIds |-> [h \in ProofHashes |-> verifyDeletionProof(k, h)]],
     isAuthorized |-> [a \in Addresses |-> isAuthorized(a)]]

\* read functions behind onlyAuthorized
PublicViews_Guarded(sender) ==
    IF onlyAuthorized(sender) THEN ReadAnswers ELSE [result |-> "Not authorized"]

\* the read functions are public view functions without a modifier on the
\* caller: what a call by sender returns
PublicViews(sender) == ReadAnswers

\* a call of the read functions is no transaction
query(sender) ==
    /\ sender \in Addresses
    /\ UNCHANGED vars

(***************************************************************************)
(* DeletionProof: access control                                           *)
(***************************************************************************)
\* An outcome of an access-control call: the revert reason or "ok", the
\* owner and the authorization mapping it leaves, and its events.
AccessReverted(reason) ==
    [result |-> reason, owner |-> owner,
     authorizedOperators |-> authorizedOperators, events |-> <<>>]

\* an authorizeOperator without the require on the operator's address
authorizeOperatorCall_AnyAddress(sender, _operator) ==
    IF ~onlyOwner(sender) THEN AccessReverted("Only owner can call this function")
    ELSE [result |-> "ok", owner |-> owner,
          authorizedOperators |-> [authorizedOperators EXCEPT ![_operator] = TRUE],
          events |-> <<OperatorAuthorized(_operator, TRUE)>>]

\* an authorizeOperator that sets the caller's flag
authorizeOperatorCall_Self(sender, _operator) ==
    IF ~onlyOwner(sender) THEN AccessReverted("Only owner can call this function")
    ELSE IF _operator = ZeroAddress THEN AccessReverted("Invalid operator address")
    ELSE [result |-> "ok", owner |-> owner,
          authorizedOperators |-> [authorizedOperators EXCEPT ![sender] = TRUE],
          events |-> <<OperatorAuthorized(_operator, TRUE)>>]

authorizeOperatorCall(sender, _operator) ==
    IF ~onlyOwner(sender) THEN AccessReverted("Only owner can call this function")
    ELSE IF _operator = ZeroAddress THEN AccessReverted("Invalid operator address")
    ELSE [result |-> "ok", owner |-> owner,
          authorizedOperators |-> [authorizedOperators EXCEPT ![_operator] = TRUE],
          events |-> <<OperatorAuthorized(_operator, TRUE)>>]

\* a revokeOperator without the require that protects the owner
revokeOperatorCall_NoOwnerCheck(sender, _operator) ==
    IF ~onlyOwner(sender) THEN AccessReverted("Only owner can call this function")
    ELSE [result |-> "ok", owner |-> owner,
          authorizedOperators |-> [authorizedOperators EXCEPT ![_operator] = FALSE],
          events |-> <<OperatorAuthorized(_operator, FALSE)>>]

revokeOperatorCall(sender, _operator) ==
    IF ~onlyOwner(sender) THEN AccessReverted("Only owner can call this function")
    ELSE IF _operator = owner THEN AccessReverted("Cannot revoke owner")
    ELSE [result |-> "ok", owner |-> owner,
          authorizedOperators |-> [authorizedOperators EXCEPT ![_operator] = FALSE],
          events |-> <<OperatorAuthorized(_operator, FALSE)>>]

\* a transferOwnership that takes the previous owner's flag away
transferOwnershipCall_Handover(sender, _newOwner) ==
    IF ~onlyOwner(sender) THEN AccessReverted("Only owner can call this function")
    ELSE IF _newOwner = ZeroAddress THEN AccessReverted("Invalid new owner address")
    ELSE [result |-> "ok", owner |-> _newOwner,
          authorizedOperators |-> [a \in Addresses |->
              IF a = _newOwner THEN TRUE
              ELSE IF a = sender THEN FALSE ELSE authorizedOperators[a]],
          events |-> <<>>]

\* a transferOwnership without the require on the new owner's address
transferOwnershipCall_AnyAddress(sender, _newOwner) ==
    IF ~onlyOwner(sender) THEN AccessReverted("Only owner can call this function")
    ELSE [result |-> "ok", owner |-> _newOwner,
          authorizedOperators |-> [authorizedOperators EXCEPT ![_newOwner] = TRUE],
          events |-> <<>>]

transferOwnershipCall(sender, _newOwner) ==
    IF ~onlyOwner(sender) THEN AccessReverted("Only owner can call this function")
    ELSE IF _newOwner = ZeroAddress THEN AccessReverted("Invalid new owner address")
    ELSE [result |-> "ok", owner |-> _newOwner,
          authorizedOperators |-> [authorizedOperators EXCEPT ![_newOwner] = TRUE],
          events |-> <<>>]

CommitAccess(out) ==
    /\ owner' = out.owner
    /\ authorizedOperators' = out.authorizedOperators

LedgerDataUnchanged ==
    /\ UNCHANGED <<deletionRecords, keyIds, totalDeletions, eventLog, blockTimestamp>>
    /\ UNCHANGED <<kmsVars, certVars, clientVars>>

authorizeOperator(sender, _operator) ==
    /\ CommitAccess(authorizeOperatorCall(sender, _operator))
    /\ LedgerDataUnchanged

\* a revoke that also takes the revoked operator's records away
revokeOperator_Purge(sender, _operator) ==
    /\ CommitAccess(revokeOperatorCall(sender, _operator))
    /\ deletionRecords' =
           IF revokeOperatorCall(sender, _operator).result = "ok"
           THEN [k \in LedgerKeyIds |->
                    IF deletionRecords[k].operator = _operator
                    THEN EmptyRecord ELSE deletionRecords[k]]
           ELSE deletionRecords
    /\ UNCHANGED <<keyIds, totalDeletions, eventLog, blockTimestamp>>
    /\ UNCHANGED <<kmsVars, certVars, clientVars>>

revokeOperator(sender, _operator) ==
    /\ CommitAccess(revokeOperatorCall(sender, _operator))
    /\ LedgerDataUnchanged

transferOwnership(sender, _newOwner) ==
    /\ CommitAccess(transferOwnershipCall(sender, _newOwner))
    /\ LedgerDataUnchanged

\* a later block: block.timestamp grows
MineBlock ==
    /\ blockTimestamp < MaxTime
    /\ blockTimestamp' = blockTimestamp + 1
    /\ UNCHANGED <<deletionRecords, keyIds, owner, authorizedOperators,
                   totalDeletions, eventLog>>
    /\ UNCHANGED <<kmsVars, certVars, clientVars>>

(***************************************************************************)
(* Key store: keys, their material and the per-key lock                    *)
(***************************************************************************)
\* a key is KeyLen bytes long
KeyLen == 2

Procs == {"p1", "p2"}

\* os.urandom: the materials a new key may get, one with a zero byte in it
NewMaterials == { [i \in 1..KeyLen |-> 17],
                  [i \in 1..KeyLen |-> IF i = 1 THEN 0 ELSE 34] }

\* os.urandom: the bytes a random pass may write
RandomBytes == {17, 90}

DestructionMethods ==
    {"simple_del", "single_overwrite", "dod_overwrite", "ctypes_secure"}

Alice == KeyIdOf("alice")

NoKey == [state |-> "ABSENT", key_data |-> <<>>, destruction_method |-> ""]

SecureKey(key_bytes) ==
    [state |-> "ACTIVE", key_data |-> key_bytes, destruction_method |-> ""]

Unlocked == [holder |-> "none"]

KmsInit ==
    /\ kms_keys = [k \in KeyNames |-> NoKey]
    /\ key_lock = [k \in KeyNames |-> Unlocked]
    /\ originalMaterial = [k \in KeyNames |-> <<>>]
    /\ overwritten = [k \in KeyNames |-> FALSE]
    /\ destroyRuns = [k \in KeyNames |-> 0]
    /\ destroyOks = [k \in KeyNames |-> 0]
    /\ secureDestroyed = {}

\* an exclusive lock that never keeps a second destroy out
exclusiveLockFree_Always(key_id) == TRUE

\* destroy takes the key's exclusive lock: nobody else holds it
exclusiveLockFree(key_id) == key_lock[key_id].holder = "none"

\* a read lock that a running destroy does not keep out
sharedLockFree_Always(key_id) == TRUE

\* get takes the key's shared lock: no destroy holds the exclusive one
sharedLockFree(key_id) == key_lock[key_id].holder = "none"

\* a new key under key_id, ACTIVE, with its material
storeKey(key_id, key_bytes) ==
    /\ kms_keys' = [kms_keys EXCEPT ![key_id] = SecureKey(key_bytes)]
    /\ originalMaterial' = [originalMaterial EXCEPT ![key_id] = key_bytes]
    /\ overwritten' = [overwritten EXCEPT ![key_id] = FALSE]
    /\ destroyRuns' = [destroyRuns EXCEPT ![key_id] = 0]
    /\ destroyOks' = [destroyOks EXCEPT ![key_id] = 0]
    /\ UNCHANGED <<key_lock, secureDestroyed>>

(***************************************************************************)
(* Key store: generate and get                                             *)
(***************************************************************************)
\* ConflictError for an identifier the store already holds
generate_keyCall(key_id) ==
    IF kms_keys[key_id].state # "ABSENT" THEN "ConflictError" ELSE "ok"

generate_key(key_id, key_bytes) ==
    /\ IF generate_keyCall(key_id) = "ok"
       THEN storeKey(key_id, key_bytes)
       ELSE UNCHANGED kmsVars
    /\ UNCHANGED <<ledgerVars, certVars, clientVars>>

\* what kms.get_key(key_id) gives its caller
get_keyCall(key_id) ==
    LET key == kms_keys[key_id]
    IN  IF key.state = "ABSENT" THEN [result |-> "KeyNotFoundError"]
        ELSE IF key.state = "DESTROYED" THEN [result |-> "KeyDestroyedError"]
        ELSE [result |-> "ok", key_data |-> key.key_data]

\* a read changes nothing
get_key(key_id) ==
    /\ sharedLockFree(key_id)
    /\ get_keyCall(key_id).result \in {"ok", "KeyNotFoundError", "KeyDestroyedError"}
    /\ UNCHANGED vars

(***************************************************************************)
(* Key store: destroy                                                      *)
(***************************************************************************)
\* Method D without its final clear
PassesOf_NoClear(method) ==
    CASE method = "simple_del" -> <<>>
      [] method = "single_overwrite" -> <<"random">>
      [] method = "dod_overwrite" -> <<"zero", "ones", "random">>
      [] method = "ctypes_secure" -> <<"zero", "ones", "random">>

\* Method A: del; B: one random pass; C: 0x00, 0xFF, random; D: C and a clear
PassesOf(method) ==
    CASE method = "simple_del" -> <<>>
      [] method = "single_overwrite" -> <<"random">>
      [] method = "dod_overwrite" -> <<"zero", "ones", "random">>
      [] method = "ctypes_secure" -> <<"zero", "ones", "random", "zero">>

PassBytes(pass) ==
    CASE pass = "zero" -> {0}
      [] pass = "ones" -> {255}
      [] pass = "random" -> RandomBytes

\* what destroy finds once it holds the lock
destroy_keyEntry(key_id) ==
    IF kms_keys[key_id].state = "ABSENT" THEN "KeyNotFoundError"
    ELSE IF kms_keys[key_id].state = "DESTROYED" THEN "AlreadyDestroyedError"
    ELSE "ok"

\* p is inside no destroy
Idle(p) == \A k \in KeyNames : key_lock[k].holder # p

\* destroy: take the lock and inspect the state; an absent or destroyed key
\* is answered at once, an ACTIVE one starts the method's passes
destroy_key_begin(p, key_id, method) ==
    /\ Idle(p)
    /\ exclusiveLockFree(key_id)
    /\ IF destroy_keyEntry(key_id) # "ok"
       THEN UNCHANGED kmsVars
       ELSE /\ key_lock' = [key_lock EXCEPT ![key_id] =
                               [holder |-> p, method |-> method,
                                pass |-> 1, pos |-> 1]]
            /\ destroyRuns' = [destroyRuns EXCEPT ![key_id] = @ + 1]
            /\ UNCHANGED <<kms_keys, originalMaterial, overwritten,
                           destroyOks, secureDestroyed>>
    /\ UNCHANGED <<ledgerVars, certVars, clientVars>>

\* destroy: one byte of the running pass, written in place
overwrite_byte(p, key_id, b) ==
    /\ key_lock[key_id].holder = p
    /\ LET l == key_lock[key_id]
           passes == PassesOf(l.method)
       IN  /\ l.pass <= Len(passes)
           /\ b \in PassBytes(passes[l.pass])
           /\ kms_keys' = [kms_keys EXCEPT ![key_id].key_data[l.pos] = b]
           /\ key_lock' = [key_lock EXCEPT ![key_id] =
                              IF l.pos = KeyLen
                              THEN [l EXCEPT !.pass = l.pass + 1, !.pos = 1]
                              ELSE [l EXCEPT !.pos = l.pos + 1]]
    /\ overwritten' = [overwritten EXCEPT ![key_id] = TRUE]
    /\ UNCHANGED <<originalMaterial, destroyRuns, destroyOks, secureDestroyed>>
    /\ UNCHANGED <<ledgerVars, certVars, clientVars>>

\* destroy: all passes done; mark DESTROYED, release the lock, return success
destroy_key_commit(p, key_id) ==
    /\ key_lock[key_id].holder = p
    /\ key_lock[key_id].pass > Len(PassesOf(key_lock[key_id].method))
    /\ kms_keys' = [kms_keys EXCEPT ![key_id].state = "DESTROYED",
                                    ![key_id].destruction_method =
                                        key_lock[key_id].method]
    /\ key_lock' = [key_lock EXCEPT ![key_id] = Unlocked]
    /\ destroyOks' = [destroyOks EXCEPT ![key_id] = @ + 1]
    /\ secureDestroyed' = IF key_lock[key_id].method = "ctypes_secure"
                          THEN secureDestroyed \cup {key_id}
                          ELSE secureDestroyed
    /\ UNCHANGED <<originalMaterial, overwritten, destroyRuns>>
    /\ UNCHANGED <<ledgerVars, certVars, clientVars>>

(***************************************************************************)
(* CryptoManager                                                           *)
(***************************************************************************)
\* encrypt_user_data: the key of the user, or a new one stored under the same
\* key_id when get_key raises anything at all
encrypt_user_data(user_id, key_bytes) ==
    LET key_id == KeyIdOf(user_id)
    IN  /\ sharedLockFree(key_id)
        /\ IF get_keyCall(key_id).result = "ok"
           THEN UNCHANGED kmsVars
           ELSE storeKey(key_id, key_bytes)
        /\ UNCHANGED <<ledgerVars, certVars, clientVars>>

\* what decrypt_user_data gives its caller: get_key's error, or the plaintext
decrypt_user_dataCall(key_id) ==
    IF get_keyCall(key_id).result # "ok" THEN get_keyCall(key_id).result
    ELSE "plaintext"

decrypt_user_data(key_id) ==
    /\ sharedLockFree(key_id)
    /\ decrypt_user_dataCall(key_id) \in
           {"plaintext", "KeyNotFoundError", "KeyDestroyedError"}
    /\ UNCHANGED vars


(***************************************************************************)
(* Certificates                                                            *)
(***************************************************************************)
\* SHA-256, as the one-to-one tag of what it digests
user_id_hash(user_id) == "sha256:" \o user_id

\* proof_hash = sha256("{key_id}:{method}:...").hexdigest()
ProofHashOf(key_id, method) == "sha256:" \o key_id \o ":" \o method

\* the transaction that records key_id, and one that was never sent
TxHashOf(key_id) == "tx:" \o key_id

ForgedTx == "tx:forged"

\* an ISO timestamp of the clock's value
IsoOf(t) == "2025-10-21T00:00:0" \o ToString(t) \o "Z"

\* YYYYMMDD of the clock's value: the clock stays within one day
DateOf(t) == "20251021"

\* CERT-{date}-{first digits of the user's hash}
CertIdOf(user_id, t) == "CERT-" \o DateOf(t) \o "-" \o user_id_hash(user_id)

CertIds == {CertIdOf(u, t) : u \in Users, t \in 0..MaxTime}

NoFile == [missing |-> TRUE]

OnDisk(certificate_id) == cert_files[certificate_id] # NoFile

\* SHA-256 of the certificate's content
compute_certificate_hash(certificate) == [sha256 |-> certificate.certificate]

\* the file the generator writes: the content and its hash
Certificate(user_id, key_id, method, t, with_proof, tx_hash) ==
    LET deletion_details == [key_id |-> key_id, deletion_method |-> method,
                             deletion_timestamp |-> IsoOf(t)]
        user == [user_id_hash |-> user_id_hash(user_id)]
        content ==
            IF with_proof
            THEN [id |-> CertIdOf(user_id, t), version |-> "1.0", user |-> user,
                  deletion_details |-> deletion_details,
                  blockchain_proof |->
                      [transaction_hash |-> tx_hash,
                       proof_hash |-> ProofHashOf(key_id, method)]]
            ELSE [id |-> CertIdOf(user_id, t), version |-> "1.0", user |-> user,
                  deletion_details |-> deletion_details]
    IN  [certificate |-> content, certificate_hash |-> [sha256 |-> content]]

CertInit ==
    /\ cert_files = [c \in CertIds |-> NoFile]
    /\ cert_issued = [c \in CertIds |-> NoFile]
    /\ ledgerReachable = TRUE

\* the deletion flow after destroy_key has returned success: the certificate
\* of the destroyed key, written once
generate_certificate(user_id, with_proof, tx_hash) ==
    LET key_id == KeyIdOf(user_id)
        certificate_id == CertIdOf(user_id, blockTimestamp)
    IN  /\ kms_keys[key_id].state = "DESTROYED"
        /\ ~OnDisk(certificate_id)
        /\ cert_files' = [cert_files EXCEPT ![certificate_id] =
               Certificate(user_id, key_id, kms_keys[key_id].destruction_method,
                           blockTimestamp, with_proof, tx_hash)]
        /\ cert_issued' = [cert_issued EXCEPT ![certificate_id] =
               cert_files'[certificate_id]]
        /\ UNCHANGED <<ledgerReachable, ledgerVars, kmsVars, clientVars>>

\* the deletion flow after destroy_key has returned success: the proof hash
\* goes to the contract from the manager's account
record_deletion(user_id) ==
    LET key_id == KeyIdOf(user_id)
    IN  /\ kms_keys[key_id].state = "DESTROYED"
        /\ recordDeletion(Deployer, key_id, kms_keys[key_id].destruction_method,
                          ProofHashOf(key_id, kms_keys[key_id].destruction_method))

\* somebody edits the stored file: another method in the content, the stored
\* hash left as it was
edit_certificate(certificate_id, method) ==
    /\ OnDisk(certificate_id)
    /\ cert_files[certificate_id].certificate.deletion_details.deletion_method
           # method
    /\ cert_files' = [cert_files EXCEPT
           ![certificate_id].certificate.deletion_details.deletion_method = method]
    /\ UNCHANGED <<cert_issued, ledgerReachable, ledgerVars, kmsVars, clientVars>>

\* somebody removes the stored hash from the file
\* the file loses a required field of its certificate
remove_certificate_field(certificate_id, field) ==
    /\ OnDisk(certificate_id)
    /\ field \in DOMAIN cert_files[certificate_id].certificate
    /\ cert_files' = [cert_files EXCEPT ![certificate_id].certificate =
           [f \in DOMAIN @ \ {field} |-> @[f]]]
    /\ UNCHANGED <<cert_issued, ledgerReachable, ledgerVars, kmsVars, clientVars>>

strip_certificate_hash(certificate_id) ==
    /\ OnDisk(certificate_id)
    /\ "certificate_hash" \in DOMAIN cert_files[certificate_id]
    /\ cert_files' = [cert_files EXCEPT ![certificate_id] =
           [certificate |-> cert_files[certificate_id].certificate]]
    /\ UNCHANGED <<cert_issued, ledgerReachable, ledgerVars, kmsVars, clientVars>>

\* the RPC node stops answering, and answers again
ledger_outage ==
    /\ ledgerReachable
    /\ ledgerReachable' = FALSE
    /\ UNCHANGED <<cert_files, cert_issued, ledgerVars, kmsVars, clientVars>>

ledger_restored ==
    /\ ~ledgerReachable
    /\ ledgerReachable' = TRUE
    /\ UNCHANGED <<cert_files, cert_issued, ledgerVars, kmsVars, clientVars>>

(***************************************************************************)
(* verify_deletion                                                         *)
(***************************************************************************)
\* what verify_deletion gives its caller: an exception or a VerificationResult
Raised(error) == [outcome |-> "raised", error |-> error]

VerificationResult(status, key_destroyed) ==
    [outcome |-> "returned", status |-> status, key_destroyed |-> key_destroyed]

required_fields == {"id", "version", "user", "deletion_details"}

\* the timestamps datetime.fromisoformat accepts
ValidTimestamps == {IsoOf(t) : t \in 0..(MaxTime + 1)}

\* Step 2: required fields, timestamp format, certificate hash if present
verify_certificate_integrity(certificate) ==
    IF ~(required_fields \subseteq DOMAIN certificate.certificate)
    THEN "VerificationError"
    ELSE IF certificate.certificate.deletion_details.deletion_timestamp
                \notin ValidTimestamps
    THEN "ValueError"
    ELSE IF /\ "certificate_hash" \in DOMAIN certificate
            /\ compute_certificate_hash(certificate) # certificate.certificate_hash
    THEN "CertificateTamperedError"
    ELSE "ok"

\* web3.eth.get_transaction_receipt(tx_hash) is not None: the transaction
\* was mined
get_transaction_receipt(tx_hash) ==
    \E i \in 1..Len(eventLog) : TxHashOf(eventLog[i].keyId) = tx_hash

\* Step 3, run only for a certificate with a blockchain_proof (the sketch
\* reads the record's proofHash as record[2]); an RPC failure is not caught
\* a Step 3 that does not compare the proof hashes
blockchain_verification_NoCompare(certificate) ==
    IF "blockchain_proof" \notin DOMAIN certificate.certificate THEN "ok"
    ELSE LET tx_hash == certificate.certificate.blockchain_proof.transaction_hash
             key_id == certificate.certificate.deletion_details.key_id
             record == getDeletionRecord(key_id)
         IN  IF ~ledgerReachable THEN "ConnectionError"
             ELSE IF ~get_transaction_receipt(tx_hash)
             THEN "BlockchainUnconfirmedError"
             ELSE IF record.result # "ok" THEN "ContractLogicError"
             ELSE "ok"

\* a Step 3 that also wants the record's operator to be authorized still
blockchain_verification_LiveOperator(certificate) ==
    IF "blockchain_proof" \notin DOMAIN certificate.certificate THEN "ok"
    ELSE LET tx_hash == certificate.certificate.blockchain_proof.transaction_hash
             key_id == certificate.certificate.deletion_details.key_id
             cert_proof_hash == certificate.certificate.blockchain_proof.proof_hash
             record == getDeletionRecord(key_id)
         IN  IF ~ledgerReachable THEN "ConnectionError"
             ELSE IF ~get_transaction_receipt(tx_hash)
             THEN "BlockchainUnconfirmedError"
             ELSE IF record.result # "ok" THEN "ContractLogicError"
             ELSE IF cert_proof_hash # record.value[5] THEN "VerificationError"
             ELSE IF ~isAuthorized(record.value[4]) THEN "VerificationError"
             ELSE "ok"

blockchain_verification(certificate) ==
    IF "blockchain_proof" \notin DOMAIN certificate.certificate THEN "ok"
    ELSE LET tx_hash == certificate.certificate.blockchain_proof.transaction_hash
             key_id == certificate.certificate.deletion_details.key_id
             cert_proof_hash == certificate.certificate.blockchain_proof.proof_hash
             record == getDeletionRecord(key_id)
         IN  IF ~ledgerReachable THEN "ConnectionError"
             ELSE IF ~get_transaction_receipt(tx_hash)
             THEN "BlockchainUnconfirmedError"
             ELSE IF record.result # "ok" THEN "ContractLogicError"
             ELSE IF cert_proof_hash # record.value[5] THEN "VerificationError"
             ELSE "ok"

\* Step 4: try to get the key; only KeyDestroyedError is caught
key_status_verification(key_id) ==
    LET key == get_keyCall(key_id)
    IN  IF key.result = "ok" THEN VerificationResult("FAILED", FALSE)
        ELSE IF key.result = "KeyDestroyedError"
        THEN VerificationResult("VERIFIED", TRUE)
        ELSE Raised(key.result)

\* Steps 1 to 4 in their order
\* a verify_deletion that asks the ledger before it checks the certificate
verify_deletionCall_LedgerFirst(certificate_id) ==
    IF ~OnDisk(certificate_id) THEN Raised("FileNotFoundError")
    ELSE LET certificate == cert_files[certificate_id]
             step2 == verify_certificate_integrity(certificate)
             step3 == blockchain_verification(certificate)
         IN  IF step3 # "ok" THEN Raised(step3)
             ELSE IF step2 # "ok" THEN Raised(step2)
             ELSE key_status_verification(
                      certificate.certificate.deletion_details.key_id)

verify_deletionCall(certificate_id) ==
    IF ~OnDisk(certificate_id) THEN Raised("FileNotFoundError")
    ELSE LET certificate == cert_files[certificate_id]
             step2 == verify_certificate_integrity(certificate)
             step3 == blockchain_verification(certificate)
         IN  IF step2 # "ok" THEN Raised(step2)
             ELSE IF step3 # "ok" THEN Raised(step3)
             ELSE key_status_verification(
                      certificate.certificate.deletion_details.key_id)

\* verify_deletion gets as far as Step 4
ReachesKeyStatus(certificate_id) ==
    /\ OnDisk(certificate_id)
    /\ verify_certificate_integrity(cert_files[certificate_id]) = "ok"
    /\ blockchain_verification(cert_files[certificate_id]) = "ok"

CertKeyId(certificate_id) ==
    cert_files[certificate_id].certificate.deletion_details.key_id

\* a verification changes nothing; its Step 4 waits for the key's read lock
verify_deletion(certificate_id) ==
    /\ ReachesKeyStatus(certificate_id) => sharedLockFree(CertKeyId(certificate_id))
    /\ verify_deletionCall(certificate_id).outcome \in {"raised", "returned"}
    /\ UNCHANGED vars

(***************************************************************************)
(* ContractManager.record_deletion and record_with_retry                   *)
(***************************************************************************)
\* def record_with_retry(manager, key_id, method, proof_hash, max_retries=3)
MaxRetries == 3

\* what becomes of a submitted transaction: mined and confirmed in time,
\* mined after the wait for its confirmation ran out, or never mined
Deliveries == {"confirmed", "timeout_committed", "timeout_dropped"}

RetryIdle == [status |-> "idle", attempt |-> 0, error |-> ""]

RetryInit == retry = RetryIdle

\* manager.record_deletion(..., wait_for_confirmation=True): the transaction's
\* outcome on the contract and what the caller gets, a result or a
\* TransactionError for a failed or timed-out transaction
manager_record_deletionCall(key_id, destruction_method, proof_hash, delivery) ==
    LET out == recordDeletionCall(LedgerState, Deployer, key_id,
                                  destruction_method, proof_hash, blockTimestamp)
    IN  IF delivery = "timeout_dropped"
        THEN [out |-> Reverted(LedgerState, "dropped"),
              raised |-> "TransactionError", error |-> "timeout"]
        ELSE IF delivery = "timeout_committed"
        THEN [out |-> out, raised |-> "TransactionError", error |-> "timeout"]
        ELSE IF out.result # "ok"
        THEN [out |-> out, raised |-> "TransactionError", error |-> out.result]
        ELSE [out |-> out, raised |-> "", error |-> ""]

\* one turn of the loop: return the result, or on TransactionError sleep and
\* go on while attempt < max_retries - 1, else raise
record_with_retryStep(call) ==
    IF call.raised = ""
    THEN [status |-> "returned", attempt |-> retry.attempt, error |-> ""]
    ELSE IF retry.attempt < MaxRetries - 1
    THEN [status |-> "running", attempt |-> retry.attempt + 1, error |-> call.error]
    ELSE [status |-> "raised", attempt |-> retry.attempt, error |-> call.error]

record_with_retry_begin ==
    /\ retry.status = "idle"
    /\ retry' = [status |-> "running", attempt |-> 0, error |-> ""]
    /\ UNCHANGED <<ledgerVars, kmsVars, certVars>>

record_with_retry_attempt(key_id, method, proof_hash, delivery) ==
    LET call == manager_record_deletionCall(key_id, method, proof_hash, delivery)
    IN  /\ retry.status = "running"
        /\ Commit(call.out)
        /\ retry' = record_with_retryStep(call)
        /\ UNCHANGED <<owner, authorizedOperators, blockTimestamp>>
        /\ UNCHANGED <<kmsVars, certVars>>

Init == LedgerInit /\ KmsInit /\ CertInit /\ RetryInit

KeyStoreNext ==
    \/ \E k \in KeyNames, m \in NewMaterials : generate_key(k, m)
    \/ \E k \in KeyNames : get_key(k)
    \/ \E p \in Procs, k \in KeyNames, m \in DestructionMethods :
          destroy_key_begin(p, k, m)
    \/ \E p \in Procs, k \in KeyNames, b \in {0, 255} \cup RandomBytes :
          overwrite_byte(p, k, b)
    \/ \E p \in Procs, k \in KeyNames : destroy_key_commit(p, k)

SpecKeyStore == Init /\ [][KeyStoreNext]_vars

\* the thread inside destroy is scheduled again and again: its next byte and
\* its commit are not postponed forever
DestroyFairness ==
    \A p \in Procs, k \in KeyNames :
        /\ WF_vars(\E b \in {0, 255} \cup RandomBytes : overwrite_byte(p, k, b))
        /\ WF_vars(destroy_key_commit(p, k))

SpecKeyStoreFair == SpecKeyStore /\ DestroyFairness

CryptoNext ==
    \/ KeyStoreNext
    \/ \E u \in Users, m \in NewMaterials : encrypt_user_data(u, m)
    \/ \E k \in KeyNames : decrypt_user_data(k)

SpecCrypto == Init /\ [][CryptoNext]_vars

VerifyMethods == {"ctypes_secure", "simple_del"}

VerifyNext ==
    \/ generate_key(Alice, [i \in 1..KeyLen |-> 17])
    \/ \E m \in VerifyMethods : destroy_key_begin("p1", Alice, m)
    \/ \E b \in {0, 255} \cup RandomBytes : overwrite_byte("p1", Alice, b)
    \/ destroy_key_commit("p1", Alice)
    \/ encrypt_user_data("alice", [i \in 1..KeyLen |-> 34])
    \/ record_deletion("alice")
    \/ \E h \in ProofHashes : recordDeletion(Deployer, Alice, "ctypes_secure", h)
    \/ \E with_proof \in BOOLEAN, tx \in {TxHashOf(Alice), ForgedTx} :
          generate_certificate("alice", with_proof, tx)
    \/ \E c \in CertIds, m \in VerifyMethods : edit_certificate(c, m)
    \/ \E c \in CertIds : strip_certificate_hash(c)
    \/ \E c \in CertIds : remove_certificate_field(c, "version")
    \/ ledger_outage
    \/ ledger_restored
    \/ MineBlock
    \/ \E c \in CertIds : verify_deletion(c)

SpecVerify == Init /\ [][VerifyNext]_vars

\* The deletion flow of one user: the key is generated and used, destroyed,
\* recorded on the ledger and certified.
FlowNext ==
    \/ generate_key(Alice, [i \in 1..KeyLen |-> 17])
    \/ encrypt_user_data("alice", [i \in 1..KeyLen |-> 34])
    \/ \E m \in VerifyMethods : destroy_key_begin("p1", Alice, m)
    \/ \E b \in {0, 255} \cup RandomBytes : overwrite_byte("p1", Alice, b)
    \/ destroy_key_commit("p1", Alice)
    \/ record_deletion("alice")
    \/ \E with_proof \in BOOLEAN : generate_certificate("alice", with_proof, TxHashOf(Alice))
    \/ MineBlock

SpecFlow == Init /\ [][FlowNext]_vars

\* Verification of a certificate while the key store and the ledger go on
\* being used through their own operations.
AuditNext ==
    \/ generate_key(Alice, [i \in 1..KeyLen |-> 17])
    \/ get_key(Alice)
    \/ destroy_key_begin("p1", Alice, "ctypes_secure")
    \/ \E b \in {0, 255} \cup RandomBytes : overwrite_byte("p1", Alice, b)
    \/ destroy_key_commit("p1", Alice)
    \/ record_deletion("alice")
    \/ \E s \in Senders, h \in ProofHashes :
          recordDeletion(s, Alice, "ctypes_secure", h)
    \/ \E s \in Senders, h \in ProofHashes :
          batchRecordDeletion(s, <<Alice>>, <<"dod_overwrite">>, <<h>>)
    \/ \E s \in Senders, a \in Senders : authorizeOperator(s, a)
    \/ \E s \in Senders, a \in Senders : revokeOperator(s, a)
    \/ \E s \in Senders, a \in Senders : transferOwnership(s, a)
    \/ \E with_proof \in BOOLEAN : generate_certificate("alice", with_proof, TxHashOf(Alice))
    \/ ledger_outage
    \/ ledger_restored
    \/ MineBlock
    \/ \E c \in CertIds : verify_deletion(c)

SpecAudit == Init /\ [][AuditNext]_vars

(***************************************************************************)
(* The ledger under every caller and input.                                *)
(***************************************************************************)
BatchEntries ==
    { <<"user_alice_dek", "dod_overwrite", "h1">>, <<"user_bob_dek", "ctypes_secure", "h2">>,
      <<"user_alice_dek", "ctypes_secure", "h2">>, <<"", "dod_overwrite", "h1">>,
      <<"user_bob_dek", "", "h1">> }

Column(entries, c) == [i \in 1..Len(entries) |-> entries[i][c]]

Filled(n, x) == [i \in 1..n |-> x]

\* equal-length batches of every content up to MaxBatch entries
WellFormedBatches ==
    { <<Column(es, 1), Column(es, 2), Column(es, 3)>> :
        es \in UNION {[1..n -> BatchEntries] : n \in 1..MaxBatch} }

\* batches of every shape (mismatched lengths, empty), one over the limit
ShapedBatches ==
    { <<Filled(a, "user_alice_dek"), Filled(b, "dod_overwrite"), Filled(c, "h1")>> :
        a \in 0..MaxBatch, b \in 0..MaxBatch, c \in 0..MaxBatch }
    \cup { <<Filled(BatchLimit + 1, "user_alice_dek"), Filled(BatchLimit + 1, "dod_overwrite"),
             Filled(BatchLimit + 1, "h1")>> }
    \cup { <<Filled(BatchLimit + 1, "user_alice_dek"), Filled(1, "dod_overwrite"),
             Filled(BatchLimit + 1, "h1")>> }

\* n entries of non-empty keyIds and methods
FullBatch(n) ==
    <<[i \in 1..n |-> IF i % 2 = 1 THEN "user_alice_dek" ELSE "user_bob_dek"],
      Filled(n, "dod_overwrite"), Filled(n, "h1")>>

BatchInputs == WellFormedBatches \cup ShapedBatches \cup {FullBatch(BatchLimit)}

LedgerNext ==
    \/ \E s \in Senders, k \in LedgerKeyIds, m \in MethodNames, h \in ProofHashes :
          recordDeletion(s, k, m, h)
    \/ \E s \in Senders, b \in BatchInputs :
          batchRecordDeletion(s, b[1], b[2], b[3])
    \/ \E s \in Senders, a \in Addresses : authorizeOperator(s, a)
    \/ \E s \in Senders, a \in Addresses : revokeOperator(s, a)
    \/ \E s \in Senders, a \in Addresses : transferOwnership(s, a)
    \/ \E s \in Addresses : query(s)
    \/ MineBlock

SpecLedger == Init /\ [][LedgerNext]_vars

\* The ledger driven by full batches of every size around the limit, with
\* single records in between, all in one block.
BatchNext ==
    \/ \E s \in Senders, n \in 1..(BatchLimit + 2) :
          batchRecordDeletion(s, FullBatch(n)[1], FullBatch(n)[2], FullBatch(n)[3])
    \/ \E s \in Senders, k \in KeyNames :
          recordDeletion(s, k, "ctypes_secure", "h2")
    \/ \E s \in Senders, a \in Addresses : authorizeOperator(s, a)
    \/ \E s \in Senders, a \in Addresses : revokeOperator(s, a)
    \/ \E s \in Senders, a \in Addresses : transferOwnership(s, a)

SpecBatch == Init /\ [][BatchNext]_vars

\* record_with_retry for alice's key against the ledger, whose owner manages
\* the operators meanwhile.
RetryNext ==
    \/ record_with_retry_begin
    \/ \E d \in Deliveries :
          record_with_retry_attempt(Alice, "ctypes_secure", "h1", d)
    \/ \E s \in Senders, a \in Addresses : authorizeOperator(s, a)
    \/ \E s \in Senders, a \in Addresses : revokeOperator(s, a)
    \/ \E s \in Senders, a \in Addresses : transferOwnership(s, a)
    \/ MineBlock

SpecRetry == Init /\ [][RetryNext]_vars


(***************************************************************************)
(* Properties of the ledger.                                               *)
(***************************************************************************)
RecordedKeyIds == {k \in LedgerKeyIds : deletionRecords[k].exists}

\* C2: the ledger is append-only. Once a record exists for a keyId, no step
\* of any caller (recordDeletion, batchRecordDeletion, authorizeOperator,
\* revokeOperator, transferOwnership) changes any field of it, and
\* isKeyDeleted(keyId) stays true.
C2_AppendOnly ==
    [][\A k \in LedgerKeyIds :
          deletionRecords[k].exists =>
              /\ deletionRecords'[k] = deletionRecords[k]
              /\ isKeyDeleted(k)']_vars

\* a record outlives its writer's authorization and a change of owner
C2_Witness ==
    /\ deletionRecords["user_alice_dek"].exists
    /\ ~isAuthorized(deletionRecords["user_alice_dek"].operator)
    /\ owner # Deployer
    /\ Len(keyIds) = 2
    /\ blockTimestamp > deletionRecords["user_alice_dek"].timestamp

\* C3: in every reachable state the keyIds with a record are exactly the
\* entries of the keyIds list, the list holds no keyId twice, and
\* totalDeletions is the length of the list.
C3_ListMatchesMap ==
    /\ RecordedKeyIds = {keyIds[i] : i \in 1..Len(keyIds)}
    /\ \A i, j \in 1..Len(keyIds) : i # j => keyIds[i] # keyIds[j]
    /\ totalDeletions = Len(keyIds)

C3_Witness ==
    /\ keyIds = <<"user_bob_dek", "user_alice_dek">>
    /\ totalDeletions = 2
    /\ deletionRecords["user_alice_dek"].operator # deletionRecords["user_bob_dek"].operator

\* C4: a recordDeletion by an authorized caller for a keyId that has a record
\* reverts with "Key deletion record already exists" whatever method and
\* proofHash it carries, and leaves records, list and counter as they were;
\* recording a fresh keyId and then the same keyId again raises
\* totalDeletions by exactly one.
C4_DuplicateRejected ==
    \A s \in Senders, k \in LedgerKeyIds, m \in MethodNames, h \in ProofHashes :
        onlyAuthorized(s) =>
            LET out == recordDeletionCall(LedgerState, s, k, m, h, blockTimestamp)
            IN  /\ deletionRecords[k].exists =>
                    /\ out.result = "Key deletion record already exists"
                    /\ out.st = LedgerState
                    /\ out.events = <<>>
                /\ out.result = "ok" =>
                    \A s2 \in Senders, m2 \in MethodNames, h2 \in ProofHashes,
                       ts2 \in blockTimestamp..MaxTime :
                        onlyAuthorized(s2) =>
                            LET again == recordDeletionCall(out.st, s2, k, m2, h2, ts2)
                            IN  /\ again.result = "Key deletion record already exists"
                                /\ again.st = out.st
                                /\ again.st.totalDeletions = totalDeletions + 1

\* a record exists, and a second authorized caller could send the duplicate
C4_Witness ==
    /\ deletionRecords["user_alice_dek"].exists
    /\ deletionRecords["user_alice_dek"].operator = "0xA"
    /\ owner = "0xA"
    /\ authorizedOperators["0xB"]
    /\ totalDeletions = 1

\* C5: a recordDeletion by the owner or an authorized operator with a
\* non-empty keyId that has no record, a non-empty method and any proofHash
\* succeeds; after it isKeyDeleted(keyId) is true, getDeletionRecord(keyId)
\* returns (keyId, method, time of the call, caller, proofHash) and
\* totalDeletions is one higher.
C5_RecordStored ==
    /\ [](\A s \in Senders, k \in LedgerKeyIds, m \in MethodNames,
             h \in ProofHashes :
            (onlyAuthorized(s) /\ k # "" /\ m # "" /\ ~deletionRecords[k].exists)
            => recordDeletionCall(LedgerState, s, k, m, h,
                                  blockTimestamp).result = "ok")
    /\ [][\A s \in Senders, k \in LedgerKeyIds, m \in MethodNames,
             h \in ProofHashes :
            (/\ onlyAuthorized(s) /\ k # "" /\ m # "" /\ ~deletionRecords[k].exists
             /\ recordDeletion(s, k, m, h))
            => /\ isKeyDeleted(k)'
               /\ getDeletionRecord(k)' =
                      [result |-> "ok", value |-> <<k, m, blockTimestamp, s, h>>]
               /\ totalDeletions' = totalDeletions + 1]_vars

\* an authorized operator that is not the owner has recorded a deletion
C5_Witness ==
    /\ deletionRecords["user_bob_dek"].exists
    /\ deletionRecords["user_bob_dek"].operator # owner
    /\ deletionRecords["user_bob_dek"].timestamp > 0
    /\ deletionRecords["user_bob_dek"].proofHash = "h2"
    /\ totalDeletions = 1

C7_ConsistentRead ==
    \A k \in KeyNames :
        sharedLockFree(k) =>
            LET r == get_keyCall(k)
            IN  /\ r.result \in {"ok", "KeyDestroyedError", "KeyNotFoundError"}
                /\ r.result = "ok" =>
                      /\ r.key_data = originalMaterial[k]
                      /\ Len(r.key_data) = KeyLen
                      /\ ~overwritten[k]
                      /\ destroyOks[k] = 0
                /\ destroyOks[k] > 0 => r.result = "KeyDestroyedError"

\* a destroy holds the key half overwritten, still ACTIVE, and keeps get out
C7_Witness ==
    /\ key_lock[Alice].holder = "p1"
    /\ key_lock[Alice].pos = 2
    /\ kms_keys[Alice].state = "ACTIVE"
    /\ kms_keys[Alice].key_data # originalMaterial[Alice]
    /\ kms_keys[Alice].key_data[2] = originalMaterial[Alice][2]
    /\ ~sharedLockFree(Alice)

C10_FullyVerifiedNeedsLedger ==
    \A c \in CertIds :
        verify_deletionCall(c) = VerificationResult("VERIFIED", TRUE) =>
            LET certificate == cert_files[c]
            IN  /\ verify_certificate_integrity(certificate) = "ok"
                /\ "blockchain_proof" \in DOMAIN certificate.certificate
                /\ ledgerReachable
                /\ getDeletionRecord(CertKeyId(c)).result = "ok"
                /\ getDeletionRecord(CertKeyId(c)).value[5] =
                       certificate.certificate.blockchain_proof.proof_hash
                /\ get_keyCall(CertKeyId(c)).result = "KeyDestroyedError"

\* C11: with the ledger unreachable, verify_deletion of a certificate that
\* passes the integrity checks raises nothing: it returns a VerificationResult,
\* and its status is PARTIAL when get_key fails with KeyDestroyedError.
C11_DegradesWithoutLedger ==
    \A c \in CertIds :
        (/\ OnDisk(c)
         /\ verify_certificate_integrity(cert_files[c]) = "ok"
         /\ ~ledgerReachable)
        => /\ verify_deletionCall(c).outcome = "returned"
           /\ get_keyCall(CertKeyId(c)).result = "KeyDestroyedError"
                  => verify_deletionCall(c).status = "PARTIAL"

\* C12: a certificate file whose content is no longer the content the
\* generator wrote is answered CertificateTamperedError by verify_deletion
\* (VerificationError when the edit took a required field away), never with
\* a VerificationResult.
C12_EditDetected ==
    \A c \in CertIds :
        (OnDisk(c) /\ cert_files[c].certificate # cert_issued[c].certificate)
        => verify_deletionCall(c) =
               IF required_fields \subseteq DOMAIN cert_files[c].certificate
               THEN Raised("CertificateTamperedError")
               ELSE Raised("VerificationError")


-----------------------------------------------------------------------------
(* Access control of the ledger                                             *)

\* C13: recordDeletion and batchRecordDeletion write a record only for a
\* caller that is the owner or has authorizedOperators[caller]; for every
\* other caller they fail with "Not authorized" and leave the records, the
\* keyIds list, totalDeletions, the owner and the authorization set as they
\* were.
C13_WritersAuthorized ==
    /\ [](\A s \in Senders :
            ~(s = owner \/ authorizedOperators[s])
            => /\ \A k \in LedgerKeyIds, m \in MethodNames, h \in ProofHashes :
                     recordDeletionCall(LedgerState, s, k, m, h, blockTimestamp)
                         = Reverted(LedgerState, "Not authorized")
               /\ \A b \in BatchInputs :
                     batchRecordDeletionCall(LedgerState, s, b[1], b[2], b[3],
                                             blockTimestamp)
                         = Reverted(LedgerState, "Not authorized"))
    /\ [][(\/ deletionRecords' # deletionRecords
           \/ keyIds' # keyIds
           \/ totalDeletions' # totalDeletions)
          => /\ owner' = owner
             /\ authorizedOperators' = authorizedOperators
             /\ \E s \in Senders :
                   /\ s = owner \/ authorizedOperators[s]
                   /\ \/ \E k \in LedgerKeyIds, m \in MethodNames,
                            h \in ProofHashes : recordDeletion(s, k, m, h)
                      \/ \E b \in BatchInputs :
                            batchRecordDeletion(s, b[1], b[2], b[3])]_vars

\* a record written by an operator that has since lost its authorization
C13_Witness ==
    \E k \in KeyNames :
        /\ deletionRecords[k].exists
        /\ deletionRecords[k].operator = "0xB"
        /\ ~isAuthorized("0xB")

\* C14: in every reachable state isAuthorized(owner) is true for the current
\* owner, and revokeOperator(owner) called by the owner fails with "Cannot
\* revoke owner" and changes nothing.
C14_OwnerAlwaysAuthorized ==
    /\ isAuthorized(owner)
    /\ revokeOperatorCall(owner, owner) = AccessReverted("Cannot revoke owner")

\* ownership has moved away from the deployer, whose authorization was revoked
C14_Witness ==
    /\ owner = "0xB"
    /\ ~authorizedOperators[Deployer]

\* C15: authorizeOperator, revokeOperator and transferOwnership take effect
\* only when the current owner calls them; called by anyone else, an
\* authorized operator included, they fail with "Only owner can call this
\* function" and leave the owner and the authorization set as they were.
C15_OwnerOnly ==
    /\ [](\A s \in Senders, a \in Addresses :
            s # owner
            => /\ authorizeOperatorCall(s, a)
                   = AccessReverted("Only owner can call this function")
               /\ revokeOperatorCall(s, a)
                   = AccessReverted("Only owner can call this function")
               /\ transferOwnershipCall(s, a)
                   = AccessReverted("Only owner can call this function"))
    /\ [][(owner' # owner \/ authorizedOperators' # authorizedOperators)
          => \E a \in Addresses :
                \/ authorizeOperator(owner, a)
                \/ revokeOperator(owner, a)
                \/ transferOwnership(owner, a)]_vars

\* an authorized operator that is not the owner
C15_Witness ==
    \E s \in Senders : s # owner /\ authorizedOperators[s]

\* C16: an authorization failure comes before every other check: an
\* unauthorized caller gets "Not authorized" from recordDeletion for an empty
\* keyId, an empty method or a recorded keyId, and from batchRecordDeletion
\* for mismatched, empty or oversized arrays; a non-owner gets "Only owner
\* can call this function" from transferOwnership(zero),
\* authorizeOperator(zero) and revokeOperator(owner).
C16_AuthorizationFirst ==
    /\ \A s \in Senders :
          ~isAuthorized(s)
          => /\ \A k \in LedgerKeyIds, m \in MethodNames, h \in ProofHashes :
                   (k = "" \/ m = "" \/ deletionRecords[k].exists)
                   => recordDeletionCall(LedgerState, s, k, m, h,
                                         blockTimestamp).result = "Not authorized"
             /\ \A b \in ShapedBatches :
                   batchRecordDeletionCall(LedgerState, s, b[1], b[2], b[3],
                                           blockTimestamp).result = "Not authorized"
    /\ \A s \in Senders :
          s # owner
          => /\ transferOwnershipCall(s, ZeroAddress).result
                    = "Only owner can call this function"
             /\ authorizeOperatorCall(s, ZeroAddress).result
                    = "Only owner can call this function"
             /\ revokeOperatorCall(s, owner).result
                    = "Only owner can call this function"

\* an unauthorized caller exists while a keyId is already recorded
C16_Witness ==
    /\ \E s \in Senders : ~isAuthorized(s)
    /\ \E k \in KeyNames : deletionRecords[k].exists

\* the outcome of transferOwnership(n) by the owner, for every address n
TransferOutcome(n) ==
    LET out == transferOwnershipCall(owner, n)
    IN  IF n = ZeroAddress
        THEN out = AccessReverted("Invalid new owner address")
        ELSE /\ out.result = "ok"
             /\ out.owner = n
             /\ out.authorizedOperators[n]

\* C17 as stated: after transferOwnership(n) with any non-zero n the previous
\* owner is no longer the owner, so that its owner-only calls fail.
C17_PreviousOwnerLocked ==
    \A n \in Addresses :
        /\ TransferOutcome(n)
        /\ n # ZeroAddress => transferOwnershipCall(owner, n).owner # owner

\* C17: transferOwnership(n) called by the owner with a non-zero n makes n
\* the owner and makes isAuthorized(n) true; when n is not the caller itself,
\* owner-only calls by the previous owner fail afterwards;
\* transferOwnership(zero) fails with "Invalid new owner address" and leaves
\* the owner and the authorization set as they were.
C17_TransferToOther ==
    /\ [](\A n \in Addresses : TransferOutcome(n))
    /\ [][\A prev \in Senders, n \in Senders :
            (prev = owner /\ n # prev /\ transferOwnership(prev, n))
            => /\ owner' = n
               /\ isAuthorized(n)'
               /\ \A a \in Addresses :
                     /\ authorizeOperatorCall(prev, a)'.result
                            = "Only owner can call this function"
                     /\ revokeOperatorCall(prev, a)'.result
                            = "Only owner can call this function"
                     /\ transferOwnershipCall(prev, a)'.result
                            = "Only owner can call this function"]_vars

\* ownership went to 0xB while the deployer stayed an authorized operator
C17_Witness ==
    /\ owner = "0xB"
    /\ authorizedOperators[Deployer]

-----------------------------------------------------------------------------
(* Validation in recordDeletion and batchRecordDeletion                     *)

\* C18 as stated: an authorized recordDeletion with an empty keyId or an
\* empty method fails with one of the two validation messages in every
\* ledger state.
C18_ValidationAlways ==
    \A s \in Senders, k \in LedgerKeyIds, m \in MethodNames, h \in ProofHashes :
        (onlyAuthorized(s) /\ (k = "" \/ m = ""))
        => LET out == recordDeletionCall(LedgerState, s, k, m, h, blockTimestamp)
           IN  /\ out.result \in {"Key ID cannot be empty", "Method cannot be empty"}
               /\ k # "" => out.result = "Method cannot be empty"
               /\ m # "" => out.result = "Key ID cannot be empty"
               /\ out.st = LedgerState
               /\ out.events = <<>>

\* C18: an authorized recordDeletion with an empty keyId or an empty method
\* changes no ledger state; it fails with "Key ID cannot be empty" or "Method
\* cannot be empty" when the keyId has no record, and with "Key deletion
\* record already exists" when the method is empty and the keyId has one.
C18_ValidationUnlessRecorded ==
    \A s \in Senders, k \in LedgerKeyIds, m \in MethodNames, h \in ProofHashes :
        (onlyAuthorized(s) /\ (k = "" \/ m = ""))
        => LET out == recordDeletionCall(LedgerState, s, k, m, h, blockTimestamp)
           IN  /\ out.st = LedgerState
               /\ out.events = <<>>
               /\ IF deletionRecords[k].exists
                  THEN out.result = "Key deletion record already exists"
                  ELSE /\ out.result \in {"Key ID cannot be empty",
                                         "Method cannot be empty"}
                       /\ k # "" => out.result = "Method cannot be empty"
                       /\ m # "" => out.result = "Key ID cannot be empty"

\* a keyId is recorded while another one is not
C18_Witness ==
    /\ deletionRecords["user_alice_dek"].exists
    /\ ~deletionRecords["user_bob_dek"].exists

\* C19: an authorized batchRecordDeletion whose arrays differ in length, are
\* empty or hold more than 100 entries fails with "Array lengths must match",
\* "Arrays cannot be empty" or "Batch size too large", the mismatch first,
\* and writes no record, list entry, counter increment or notification.
C19_StructuralErrors ==
    \A s \in Senders, b \in ShapedBatches :
        LET out  == batchRecordDeletionCall(LedgerState, s, b[1], b[2], b[3],
                                            blockTimestamp)
            same == Len(b[1]) = Len(b[2]) /\ Len(b[1]) = Len(b[3])
        IN  (onlyAuthorized(s) /\ (~same \/ Len(b[1]) = 0 \/ Len(b[1]) > 100))
            => /\ out.result = IF ~same THEN "Array lengths must match"
                               ELSE IF Len(b[1]) = 0 THEN "Arrays cannot be empty"
                               ELSE "Batch size too large"
               /\ out.st = LedgerState
               /\ out.events = <<>>

\* two authorized callers, with a record already on the ledger
C19_Witness ==
    /\ \A s \in Senders : onlyAuthorized(s)
    /\ totalDeletions > 0

\* C20: the batch limit is exactly 100: an authorized batch of n entries with
\* non-empty keyIds and methods succeeds for every n from 1 to 100 and fails
\* with "Batch size too large" for 101 and 102.
C20_LimitIsHundred ==
    \A s \in Senders, n \in 1..(100 + 2) :
        onlyAuthorized(s)
        => LET b   == FullBatch(n)
               out == batchRecordDeletionCall(LedgerState, s, b[1], b[2], b[3],
                                              blockTimestamp)
           IN  IF n <= 100
               THEN /\ out.result = "ok"
                    /\ \A i \in 1..n : out.st.deletionRecords[b[1][i]].exists
               ELSE out = Reverted(LedgerState, "Batch size too large")

\* both keyIds of a full batch are recorded, in the order of the batch
C20_Witness ==
    /\ keyIds = <<"user_alice_dek", "user_bob_dek">>
    /\ \A k \in KeyNames :
          /\ deletionRecords[k].destructionMethod = "dod_overwrite"
          /\ deletionRecords[k].operator = "0xB"


-----------------------------------------------------------------------------
(* Batches and queries of the ledger                                        *)

\* the first entry of a batch that names keyId k
FirstIndex(_keyIds, k) ==
    CHOOSE i \in 1..Len(_keyIds) :
        _keyIds[i] = k /\ \A j \in 1..(i - 1) : _keyIds[j] # k

\* the keyIds of a batch that have no record yet
FreshKeyIds(_keyIds) ==
    {_keyIds[i] : i \in 1..Len(_keyIds)} \ {k \in LedgerKeyIds : deletionRecords[k].exists}

\* C21: in a batch that passes the structural checks an entry whose keyId has
\* a record, from before the call or from an earlier entry, is skipped without
\* error whatever method and proofHash it carries, and its record stays; after
\* the call totalDeletions has grown by the number of distinct keyIds of the
\* batch that had no record, each of which has the record of its first entry.
C21_RecordedEntriesSkipped ==
    \A s \in Senders, b \in WellFormedBatches :
        onlyAuthorized(s)
        => LET out == batchRecordDeletionCall(LedgerState, s, b[1], b[2], b[3],
                                              blockTimestamp)
               fresh == FreshKeyIds(b[1])
           IN  /\ out.result = "ok"
                   <=> \A k \in fresh :
                          k # "" /\ b[2][FirstIndex(b[1], k)] # ""
               /\ out.result = "ok"
                   => /\ \A k \in LedgerKeyIds \ fresh :
                            out.st.deletionRecords[k] = deletionRecords[k]
                      /\ out.st.totalDeletions = totalDeletions + Cardinality(fresh)
                      /\ Len(out.events) = Cardinality(fresh)
                      /\ \A k \in fresh :
                            LET i == FirstIndex(b[1], k)
                            IN  out.st.deletionRecords[k] =
                                    DeletionRecord(k, b[2][i], blockTimestamp, s, b[3][i])

\* both keyIds recorded in one block by one operator, as a batch leaves them
C21_Witness ==
    /\ deletionRecords["user_bob_dek"].exists
    /\ deletionRecords["user_bob_dek"].proofHash = "h2"
    /\ deletionRecords["user_alice_dek"].exists
    /\ deletionRecords["user_alice_dek"].timestamp
           = deletionRecords["user_bob_dek"].timestamp
    /\ totalDeletions = 2


\* C22: for a keyId with a record verifyDeletionProof(keyId, h) returns true
\* exactly when h is the proofHash stored at recording time; for a keyId
\* without a record it fails with "Key deletion record does not exist".
C22_ProofCompared ==
    /\ [](\A k \in LedgerKeyIds, h \in ProofHashes \cup {ZeroHash} :
            IF k \in RecordedKeyIds
            THEN /\ verifyDeletionProof(k, h).result = "ok"
                 /\ verifyDeletionProof(k, h).value \in BOOLEAN
                 /\ \E h0 \in ProofHashes :
                       \A h1 \in ProofHashes \cup {ZeroHash} :
                           verifyDeletionProof(k, h1).value = (h1 = h0)
            ELSE verifyDeletionProof(k, h)
                     = [result |-> "Key deletion record does not exist"])
    /\ [][\A s \in Senders, k \in KeyNames, m \in MethodNames, h \in ProofHashes :
            (k \notin RecordedKeyIds /\ recordDeletion(s, k, m, h))
            => \A h1 \in ProofHashes \cup {ZeroHash} :
                  verifyDeletionProof(k, h1)' = [result |-> "ok", value |-> h1 = h]]_vars
    /\ [][\A k \in RecordedKeyIds, h \in ProofHashes \cup {ZeroHash} :
            verifyDeletionProof(k, h)' = verifyDeletionProof(k, h)]_vars

\* one keyId recorded with proofHash h2 while the other has no record
C22_Witness ==
    /\ deletionRecords["user_alice_dek"].exists
    /\ deletionRecords["user_alice_dek"].proofHash = "h2"
    /\ ~deletionRecords["user_bob_dek"].exists

\* C23: isKeyDeleted(keyId) is true exactly for the keyIds that were recorded
\* and false for unknown keys and the empty keyId; getDeletionRecord(keyId)
\* fails with "Key deletion record does not exist" exactly when
\* isKeyDeleted(keyId) is false.
C23_QueriesAgree ==
    /\ ~isKeyDeleted("")
    /\ \A k \in LedgerKeyIds :
          /\ isKeyDeleted(k) \in BOOLEAN
          /\ isKeyDeleted(k)
                <=> \E i \in 1..Len(eventLog) : eventLog[i].keyId = k
          /\ getDeletionRecord(k).result \in
                 {"ok", "Key deletion record does not exist"}
          /\ getDeletionRecord(k).result = "Key deletion record does not exist"
                <=> ~isKeyDeleted(k)

\* bob's key is recorded, alice's is unknown to the ledger
C23_Witness ==
    /\ keyIds = <<"user_bob_dek">>
    /\ ~deletionRecords["user_alice_dek"].exists


\* an entry that reverts the batch: an empty keyId, or an empty method on the
\* first entry of a keyId that has no record
Offending(b, i) ==
    \/ b[1][i] = ""
    \/ /\ b[2][i] = ""
       /\ ~deletionRecords[b[1][i]].exists
       /\ \A j \in 1..(i - 1) : b[1][j] # b[1][i]

\* C25: a batch is committed entirely or not at all: when an entry of a
\* structurally valid batch has an empty keyId, or an empty method with a
\* keyId that has no record, the call fails and records, keyIds list,
\* totalDeletions and notifications are as before the call, the valid entries
\* ahead of the offending one included.
C25_BatchAllOrNothing ==
    \A s \in Senders, b \in WellFormedBatches :
        (onlyAuthorized(s) /\ \E i \in 1..Len(b[1]) : Offending(b, i))
        => LET out == batchRecordDeletionCall(LedgerState, s, b[1], b[2], b[3],
                                              blockTimestamp)
           IN  /\ out.result \in {"Key ID cannot be empty", "Method cannot be empty"}
               /\ out.st = LedgerState
               /\ out.events = <<>>

\* a fresh keyId is left for a batch while another one is recorded
C25_Witness ==
    /\ keyIds = <<"user_alice_dek">>
    /\ eventLog # <<>>
    /\ \A s \in Senders : onlyAuthorized(s)

\* C26: batchRecordDeletion is idempotent: a batch that has succeeded,
\* submitted again by any authorized caller at the same or a later time,
\* succeeds, leaves every record, the keyIds list and totalDeletions as they
\* are and emits no KeyDeleted notification.
C26_BatchIdempotent ==
    /\ \A s1 \in Senders, s2 \in Senders, b \in WellFormedBatches,
          t2 \in blockTimestamp..MaxTime :
          LET out1 == batchRecordDeletionCall(LedgerState, s1, b[1], b[2], b[3],
                                              blockTimestamp)
          IN  (out1.result = "ok" /\ onlyAuthorized(s2))
              => batchRecordDeletionCall(out1.st, s2, b[1], b[2], b[3], t2)
                     = [result |-> "ok", st |-> out1.st, events |-> <<>>]
    /\ \A s \in Senders, b \in WellFormedBatches :
          (onlyAuthorized(s) /\ \A i \in 1..Len(b[1]) : deletionRecords[b[1][i]].exists)
          => batchRecordDeletionCall(LedgerState, s, b[1], b[2], b[3], blockTimestamp)
                 = [result |-> "ok", st |-> LedgerState, events |-> <<>>]

\* both keyIds recorded in an earlier block, two authorized callers now
C26_Witness ==
    /\ \A k \in KeyNames :
          deletionRecords[k].exists /\ deletionRecords[k].timestamp < blockTimestamp
    /\ \A s \in Senders : onlyAuthorized(s)

\* two transactions of one block, the second on the state the first left
Serialized(s1, k1, m1, h1, s2, k2, m2, h2) ==
    LET first == recordDeletionCall(LedgerState, s1, k1, m1, h1, blockTimestamp)
        second == recordDeletionCall(first.st, s2, k2, m2, h2, blockTimestamp)
    IN  [first |-> first.result, second |-> second.result, st |-> second.st]

\* C27: ledger writes are serialized: of two concurrent recordDeletion calls
\* with one fresh keyId exactly one succeeds and the other fails with "Key
\* deletion record already exists"; two concurrent valid calls with different
\* fresh keyIds both succeed, totalDeletions grows by two and both keyIds are
\* appended to the list.
C27_WritesSerialized ==
    \A s1 \in Senders, s2 \in Senders, k1 \in KeyNames, k2 \in KeyNames,
       m1 \in MethodNames \ {""}, m2 \in MethodNames \ {""},
       h1 \in ProofHashes, h2 \in ProofHashes :
        (/\ onlyAuthorized(s1) /\ onlyAuthorized(s2)
         /\ ~deletionRecords[k1].exists /\ ~deletionRecords[k2].exists)
        => LET out == Serialized(s1, k1, m1, h1, s2, k2, m2, h2)
           IN  /\ out.first = "ok"
               /\ IF k1 = k2
                  THEN /\ out.second = "Key deletion record already exists"
                       /\ out.st.totalDeletions = totalDeletions + 1
                       /\ out.st.keyIds = Append(keyIds, k1)
                       /\ out.st.deletionRecords[k1]
                              = DeletionRecord(k1, m1, blockTimestamp, s1, h1)
                  ELSE /\ out.second = "ok"
                       /\ out.st.totalDeletions = totalDeletions + 2
                       /\ out.st.keyIds = keyIds \o <<k1, k2>>
                       /\ out.st.deletionRecords[k1]
                              = DeletionRecord(k1, m1, blockTimestamp, s1, h1)
                       /\ out.st.deletionRecords[k2]
                              = DeletionRecord(k2, m2, blockTimestamp, s2, h2)

\* two authorized callers before any record: both keyIds are still fresh
C27_Witness ==
    /\ \A s \in Senders : onlyAuthorized(s)
    /\ owner = "0xB"
    /\ totalDeletions = 0


-----------------------------------------------------------------------------
(* The caller of the ledger                                                 *)

\* C24: when a submission timed out although its write was committed and the
\* caller retries the same keyId, the retry is answered with "Key deletion
\* record already exists" and the caller reports the deletion as recorded,
\* not as failed; the ledger holds one record for the keyId and counts it once.
C24_ConflictIsSuccess ==
    /\ retry.error = "Key deletion record already exists"
           => retry.status = "returned"
    /\ totalDeletions = Cardinality(RecordedKeyIds)
    /\ Len(keyIds) = totalDeletions


-----------------------------------------------------------------------------
(* The deletion flow                                                        *)

-----------------------------------------------------------------------------
(* Order and cross-check of verify_deletion                                 *)

CrossChecked(c) ==
    /\ OnDisk(c)
    /\ verify_certificate_integrity(cert_files[c]) = "ok"
    /\ "blockchain_proof" \in DOMAIN cert_files[c].certificate
    /\ ledgerReachable

-----------------------------------------------------------------------------
(* Operators, notifications and enumeration of the ledger                   *)

\* C31: after authorizeOperator(op) by the owner isAuthorized(op) is true and
\* recordDeletion by op succeeds; after revokeOperator(op) by the owner, op
\* not the owner, isAuthorized(op) is false and recordDeletion and
\* batchRecordDeletion by op fail with "Not authorized" until op is
\* authorized again; the calls emit OperatorAuthorized(op, true) and
\* OperatorAuthorized(op, false).
C31_AuthorizeThenRevoke ==
    /\ [](\A op \in Senders :
            LET granted == authorizeOperatorCall(owner, op)
                revoked == revokeOperatorCall(owner, op)
            IN  /\ granted.result = "ok"
                /\ granted.authorizedOperators[op]
                /\ granted.events = <<OperatorAuthorized(op, TRUE)>>
                /\ op # owner
                    => /\ revoked.result = "ok"
                       /\ ~revoked.authorizedOperators[op]
                       /\ revoked.events = <<OperatorAuthorized(op, FALSE)>>)
    /\ [](\A op \in Senders, k \in KeyNames, m \in MethodNames \ {""},
             h \in ProofHashes :
            IF authorizedOperators[op]
            THEN /\ isAuthorized(op)
                 /\ ~deletionRecords[k].exists
                     => recordDeletionCall(LedgerState, op, k, m, h,
                                           blockTimestamp).result = "ok"
            ELSE op # owner
                 => /\ ~isAuthorized(op)
                    /\ recordDeletionCall(LedgerState, op, k, m, h,
                                          blockTimestamp).result = "Not authorized"
                    /\ \A b \in WellFormedBatches :
                          batchRecordDeletionCall(LedgerState, op, b[1], b[2], b[3],
                                                  blockTimestamp).result
                              = "Not authorized")
    /\ [][\A op \in Senders :
            /\ authorizeOperator(owner, op) => authorizedOperators'[op]
            /\ (op # owner /\ revokeOperator(owner, op))
                   => ~authorizedOperators'[op] /\ owner' = owner]_vars

\* 0xB recorded a deletion in an earlier block and is revoked now, under the
\* owner that deployed the ledger
C31_Witness ==
    /\ owner = Deployer
    /\ ~authorizedOperators["0xB"]
    /\ \E k \in KeyNames :
          /\ deletionRecords[k].operator = "0xB"
          /\ deletionRecords[k].timestamp < blockTimestamp

\* C32: the number of KeyDeleted notifications equals totalDeletions: a
\* successful recordDeletion emits one, with the keyId, method, timestamp and
\* operator of the stored record, a batch one per record it writes and none
\* for skipped entries, a failing call none.
C32_OneEventPerRecord ==
    /\ Len(eventLog) = totalDeletions
    /\ Len(keyIds) = totalDeletions
    /\ \A i \in 1..Len(eventLog) :
          LET record == deletionRecords[keyIds[i]]
          IN  /\ record.exists
              /\ eventLog[i] = [event |-> "KeyDeleted", keyId |-> record.keyId,
                                destructionMethod |-> record.destructionMethod,
                                timestamp |-> record.timestamp,
                                operator |-> record.operator]
    /\ \A s \in Senders, k \in LedgerKeyIds, m \in MethodNames, h \in ProofHashes :
          LET out == recordDeletionCall(LedgerState, s, k, m, h, blockTimestamp)
          IN  Len(out.events) = IF out.result = "ok" THEN 1 ELSE 0
    /\ \A s \in Senders, b \in BatchInputs :
          LET out == batchRecordDeletionCall(LedgerState, s, b[1], b[2], b[3],
                                             blockTimestamp)
          IN  /\ Len(out.events) = out.st.totalDeletions - totalDeletions
              /\ out.result # "ok" => out.events = <<>>

\* two notifications, of two operators
C32_Witness ==
    /\ Len(eventLog) = 2
    /\ eventLog[1].operator # eventLog[2].operator


\* C33: getAllKeyIds returns the keyIds in the order their records were
\* written, entries of a batch in array order; the list only grows by
\* appending, so every earlier list is a prefix of every later one, and
\* totalDeletions never decreases.
C33_ListInWriteOrder ==
    /\ [](/\ getAllKeyIds = [i \in 1..Len(eventLog) |-> eventLog[i].keyId]
          /\ \A i \in 1..Len(keyIds), j \in 1..Len(keyIds) :
                i < j => /\ keyIds[i] # keyIds[j]
                         /\ deletionRecords[keyIds[i]].timestamp
                                <= deletionRecords[keyIds[j]].timestamp)
    /\ [](\A s \in Senders, b \in WellFormedBatches :
            LET out == batchRecordDeletionCall(LedgerState, s, b[1], b[2], b[3],
                                               blockTimestamp)
                n == Len(keyIds)
                list == out.st.keyIds
            IN  out.result = "ok"
                => /\ SubSeq(list, 1, n) = keyIds
                   /\ {list[i] : i \in (n + 1)..Len(list)} = FreshKeyIds(b[1])
                   /\ \A i \in (n + 1)..Len(list), j \in (n + 1)..Len(list) :
                         i < j => FirstIndex(b[1], list[i]) < FirstIndex(b[1], list[j]))
    /\ [][/\ Len(keyIds') >= Len(keyIds)
          /\ SubSeq(keyIds', 1, Len(keyIds)) = keyIds
          /\ totalDeletions' >= totalDeletions]_vars

\* bob's key was recorded before alice's, in an earlier block
C33_Witness ==
    /\ keyIds = <<"user_bob_dek", "user_alice_dek">>
    /\ deletionRecords["user_bob_dek"].timestamp
           < deletionRecords["user_alice_dek"].timestamp

\* C34: the read functions give every caller the same result, a caller that
\* is neither owner nor authorized or whose authorization was revoked
\* included, and never change owner, authorization set, records, keyIds list
\* or totalDeletions.
C34_ReadsArePublic ==
    /\ [](\A s \in Addresses :
            LET answers == PublicViews(s)
            IN  /\ answers = PublicViews(owner)
                /\ answers.getAllKeyIds = keyIds
                /\ answers.getTotalDeletions = totalDeletions
                /\ \A k \in LedgerKeyIds :
                      answers.isKeyDeleted[k] = deletionRecords[k].exists)
    /\ [][\A s \in Addresses : query(s) => UNCHANGED ledgerVars]_vars

\* the deployer has lost ownership and authorization while records exist
C34_Witness ==
    /\ ~isAuthorized(Deployer)
    /\ totalDeletions > 0

\* C36: after transferOwnership(n) with n other than the previous owner p, p
\* can no longer call owner-only functions but is still an authorized
\* operator: isAuthorized(p) is true and recordDeletion by p succeeds, until
\* the new owner calls revokeOperator(p).
C36_PreviousOwnerStaysOperator ==
    /\ [](authorizedOperators[owner])
    /\ [][\A p \in Senders, n \in Senders :
            (p = owner /\ n # p /\ transferOwnership(p, n))
            => /\ owner' = n
               /\ \A a \in Addresses :
                     /\ authorizeOperatorCall(p, a)'.result
                            = "Only owner can call this function"
                     /\ revokeOperatorCall(p, a)'.result
                            = "Only owner can call this function"
                     /\ transferOwnershipCall(p, a)'.result
                            = "Only owner can call this function"
               /\ isAuthorized(p)'
               /\ \A k \in KeyNames, m \in MethodNames \ {""}, h \in ProofHashes :
                     ~deletionRecords[k].exists
                     => recordDeletionCall(LedgerState, p, k, m, h,
                                           blockTimestamp)'.result = "ok"
               /\ revokeOperatorCall(n, p)'.result = "ok"
               /\ ~revokeOperatorCall(n, p)'.authorizedOperators[p]]_vars
    /\ [][\A p \in Senders :
            (p # owner /\ authorizedOperators[p] /\ ~authorizedOperators'[p])
            => revokeOperator(owner, p)]_vars

\* the deployer handed the ledger over and has recorded a deletion since
C36_Witness ==
    /\ owner = "0xB"
    /\ authorizedOperators[Deployer]
    /\ deletionRecords["user_bob_dek"].operator = Deployer
    /\ deletionRecords["user_bob_dek"].timestamp > 0

\* C37: recordDeletion and batchRecordDeletion never change owner or the
\* authorization set; authorizeOperator, revokeOperator and transferOwnership
\* never change a record, the keyIds list or totalDeletions; revoking or
\* replacing the operator that wrote a record leaves the record in place,
\* its operator field included.
C37_HalvesFramed ==
    /\ [][(\/ deletionRecords' # deletionRecords
           \/ keyIds' # keyIds
           \/ totalDeletions' # totalDeletions)
          => owner' = owner /\ authorizedOperators' = authorizedOperators]_vars
    /\ [][(owner' # owner \/ authorizedOperators' # authorizedOperators)
          => UNCHANGED <<deletionRecords, keyIds, totalDeletions, eventLog>>]_vars
    /\ [][\A k \in RecordedKeyIds : deletionRecords'[k] = deletionRecords[k]]_vars

\* the operator that wrote a record is neither owner nor authorized any more
C37_Witness ==
    \E k \in KeyNames :
        /\ deletionRecords[k].exists
        /\ deletionRecords[k].operator = Deployer
        /\ ~isAuthorized(Deployer)

\* C39: the owner is never the zero identity and the zero identity is never
\* in the authorized set: authorizeOperator(zero) fails with "Invalid operator
\* address" and transferOwnership(zero) with "Invalid new owner address", both
\* leaving the state as it was.
C39_ZeroIdentityKeptOut ==
    /\ owner # ZeroAddress
    /\ ~authorizedOperators[ZeroAddress]
    /\ ~isAuthorized(ZeroAddress)
    /\ authorizeOperatorCall(owner, ZeroAddress)
           = AccessReverted("Invalid operator address")
    /\ transferOwnershipCall(owner, ZeroAddress)
           = AccessReverted("Invalid new owner address")

\* ownership has moved and both callers are authorized
C39_Witness ==
    /\ owner = "0xB"
    /\ \A s \in Senders : authorizedOperators[s]
    /\ blockTimestamp > 0

(***************************************************************************)
(* The overwrite passes of a destroy                                       *)
(***************************************************************************)
\* the passes of a destroy run one after the other, each over the whole
\* buffer: while a pass is at position pos the bytes before pos are this
\* pass's and the others are the previous pass's (the original material before
\* the first pass); dod_overwrite is zeros, ones, random
PassesInOrder ==
    /\ PassesOf("dod_overwrite") = <<"zero", "ones", "random">>
    /\ PassesOf("ctypes_secure") = PassesOf("dod_overwrite") \o <<"zero">>
    /\ PassesOf("simple_del") = <<>>
    /\ \A k \in KeyNames :
          key_lock[k].holder # "none" =>
              LET l == key_lock[k]
                  passes == PassesOf(l.method)
              IN  \A i \in 1..KeyLen :
                     IF l.pass <= Len(passes) /\ i < l.pos
                     THEN kms_keys[k].key_data[i] \in PassBytes(passes[l.pass])
                     ELSE IF l.pass = 1
                     THEN kms_keys[k].key_data[i] = originalMaterial[k][i]
                     ELSE kms_keys[k].key_data[i] \in PassBytes(passes[l.pass - 1])

\* what the methods leave behind: four passes all zeros, three passes the
\* bytes of the random pass, del the original material
BufferAfterDestroy ==
    \A k \in KeyNames :
        kms_keys[k].state = "DESTROYED" =>
            /\ Len(kms_keys[k].key_data) = KeyLen
            /\ kms_keys[k].destruction_method = "ctypes_secure"
                  => \A i \in 1..KeyLen : kms_keys[k].key_data[i] = 0
            /\ kms_keys[k].destruction_method = "dod_overwrite"
                  => \A i \in 1..KeyLen : kms_keys[k].key_data[i] \in RandomBytes
            /\ kms_keys[k].destruction_method = "simple_del"
                  => kms_keys[k].key_data = originalMaterial[k]

C38_VerificationDoesNotRegress ==
    [][\A c \in CertIds :
          (/\ verify_deletionCall(c) = VerificationResult("VERIFIED", TRUE)
           /\ cert_files'[c] = cert_files[c]
           /\ ledgerReachable')
          => verify_deletionCall(c)' = VerificationResult("VERIFIED", TRUE)]_vars

\* a certificate with a ledger proof is verified at a later time, under
\* another owner, with the operator that wrote the record revoked
C38_Witness ==
    \E c \in CertIds :
        /\ verify_deletionCall(c) = VerificationResult("VERIFIED", TRUE)
        /\ "blockchain_proof" \in DOMAIN cert_files[c].certificate
        /\ cert_files[c].certificate.deletion_details.deletion_timestamp = IsoOf(0)
        /\ blockTimestamp = 1
        /\ owner = "0xB"
        /\ ~authorizedOperators[deletionRecords[Alice].operator]

(***************************************************************************)
(* Termination of destroy                                                  *)
(***************************************************************************)
\* A destroy whose passes all complete returns under fair scheduling: the
\* lock it holds is released with the key DESTROYED, and an absent or
\* destroyed key is answered without the lock being kept. A lock on one key
\* keeps nobody from another key.
DestroyReturns ==
    \A k \in KeyNames :
        (key_lock[k].holder # "none")
            ~> (key_lock[k].holder = "none" /\ kms_keys[k].state = "DESTROYED")

LocksArePerKey ==
    \A k \in KeyNames, p \in Procs :
        key_lock[k].holder = p =>
            /\ \A other \in KeyNames \ {k} : key_lock[other].holder # p
            /\ kms_keys[k].state = "ACTIVE"
            /\ destroy_keyEntry(k) = "ok"

=============================================================================
